---- MODULE Spec2Model ----
(***************************************************************************)
(* Bilingual reader: the paginated reader component generated by           *)
(* generate_reader_html (src/reader_component.py) and the host rerun of    *)
(* show_reader (src/app.py) that feeds it newly translated pairs.          *)
(*                                                                         *)
(* Indices are 0-based as in the JavaScript: page p of state.pages is      *)
(* state.pages[p + 1] here and pair i of sentencePairs is                  *)
(* sentencePairs[i + 1].                                                   *)
(*                                                                         *)
(* Heights are kept in fifths of a pixel, so that the inter-pair spacing   *)
(* fontSize * 0.8 of the source is the integer 4 * fontSize.               *)
(*                                                                         *)
(* A sentence pair is represented by the length of its text, in units of   *)
(* twenty characters; the strings themselves only matter to the reader     *)
(* through the height the browser measures for them.                       *)
(*                                                                         *)
(* Specifications:                                                         *)
(*   Spec          the reader's state and progress outputs under user      *)
(*                 input, resize and host appends;                         *)
(*   DomSpec       one document with its page container and the pending    *)
(*                 content swaps of the page transition;                   *)
(*   FeedSpec      the progressive feed of the host, with numbered         *)
(*                 sentences and the real batch sizes;                     *)
(*   FairFeedSpec  FeedSpec with a scheduled rerun that does run.          *)
(***************************************************************************)
EXTENDS Integers, Sequences, FiniteSets, TLC

VARIABLES
    sentencePairs,   \* const sentencePairs of the current document
    state,           \* the reader's state object
    viewport,        \* clientWidth / clientHeight of #viewport
    resizeTimeout,   \* TRUE while the debounce timer of the resize listener is armed
    lastEvent,       \* history: "load" for the first document as loaded, "append" for
                     \* a document just regenerated with new pairs, "input" once the
                     \* document has handled an input or timer event
    session_state,   \* st.session_state of the host: the keys of the progressive feed
    rerunPending,    \* TRUE when st.rerun() has scheduled another run of the script
    delivered,       \* history: the last run of the script handed a reader document
                     \* to components.html
    faults,          \* history: the calls of translate_batch so far that returned a
                     \* number of strings other than the number of sentences
    pageContainer,   \* what #pageContainer shows (its innerHTML)
    swapTimers,      \* the pending 150 ms timers of renderCurrentPage, oldest first,
                     \* each with the html it will put into #pageContainer
    ui               \* the progress outputs as updateUI last wrote them

readerVars == <<sentencePairs, state, viewport, resizeTimeout, lastEvent>>
feedVars == <<session_state, rerunPending, delivered, faults>>
domVars == <<pageContainer, swapTimers, ui>>
vars == <<sentencePairs, state, viewport, resizeTimeout, lastEvent,
          session_state, rerunPending, delivered, faults,
          pageContainer, swapTimers, ui>>

----------------------------------------------------------------------------
(* Bounds of the model *)

MaxPairs == 3        \* longest store
MaxBatch == 2        \* largest batch appended by one host rerun

\* Pair texts: a short sentence (twenty characters) and a long one (forty)
Texts == {1, 2}

(* Display parameter limits and steps of the reader *)

MinFontSize == 12
MaxFontSize == 32
MinMargin   == 8
MaxMargin   == 64
FontStep    == 2
MarginStep  == 8
initial_font_size == 18
initial_margin    == 24

(* Sizes the hosting frame can take: a small window and a narrow, low one *)
Viewports ==
    { [clientWidth |-> 400, clientHeight |-> 200],
      [clientWidth |-> 240, clientHeight |-> 120] }

RECURSIVE SeqsUpTo(_, _)
SeqsUpTo(S, n) ==
    IF n = 0 THEN { <<>> }
    ELSE LET shorter == SeqsUpTo(S, n - 1)
         IN  shorter \cup { Append(s, x) : s \in { t \in shorter : Len(t) = n - 1 }, x \in S }

Min(a, b) == IF a < b THEN a ELSE b
Max(a, b) == IF a > b THEN a ELSE b

----------------------------------------------------------------------------
(* Layout measurer: tempEl.offsetHeight of a .sentence-pair element        *)

\* ceil(a / b) for b > 0
CeilDiv(a, b) == (a + b - 1) \div b

\* number of lines a text of width textWidth wraps to in a box
\* containerWidth wide (containerWidth is positive for every viewport and
\* margin of the model)
Lines(textWidth, containerWidth) == Max(1, CeilDiv(textWidth, containerWidth))

\* Rendered height in whole pixels of one pair: the Spanish block at
\* line-height 1.5 with margin-bottom 0.3em, the English block at 0.85 of the
\* font size with line-height 1.4.  A glyph is taken to be half an em wide.
offsetHeight(pair, fontSize, containerWidth) ==
    LET spanishWidth == 10 * pair * fontSize
        englishWidth == (85 * spanishWidth) \div 100
        spanishLines == Lines(spanishWidth, containerWidth)
        englishLines == Lines(englishWidth, containerWidth)
    IN  (150 * fontSize * spanishLines + 30 * fontSize
           + 119 * fontSize * englishLines + 50) \div 100

\* pairHeight = tempEl.offsetHeight + state.fontSize * 0.8, in fifths of a pixel
pairHeight(pair, fontSize, containerWidth) ==
    5 * offsetHeight(pair, fontSize, containerWidth) + 4 * fontSize

----------------------------------------------------------------------------
(* Pagination engine *)

\* the test with >= in place of >
startNewPage_ge(currentHeight, h, containerHeight, currentPage) ==
    currentHeight + h >= containerHeight /\ Len(currentPage) > 0

\* the test that breaks before every pair but the first of a page
startNewPage_eager(currentHeight, h, containerHeight, currentPage) ==
    Len(currentPage) > 0

\* the test that breaks only once the page has already overflowed
startNewPage_late(currentHeight, h, containerHeight, currentPage) ==
    currentHeight > containerHeight /\ Len(currentPage) > 0

\* the test without "currentPage.length > 0"
startNewPage_noGuard(currentHeight, h, containerHeight, currentPage) ==
    currentHeight + h > containerHeight

\* the test that starts a new page
startNewPage(currentHeight, h, containerHeight, currentPage) ==
    currentHeight + h > containerHeight /\ Len(currentPage) > 0

\* the loop body that starts the new page empty, leaving pair i out
loopBody_dropsPair(acc, i, h, containerHeight) ==
    IF startNewPage(acc.currentHeight, h, containerHeight, acc.currentPage)
    THEN [pages         |-> Append(acc.pages, acc.currentPage),
          currentPage   |-> << >>,
          currentHeight |-> 0]
    ELSE [pages         |-> acc.pages,
          currentPage   |-> Append(acc.currentPage, i),
          currentHeight |-> acc.currentHeight + h]

\* the loop body that starts the new page with currentHeight 0
loopBody_forgetsHeight(acc, i, h, containerHeight) ==
    IF startNewPage(acc.currentHeight, h, containerHeight, acc.currentPage)
    THEN [pages         |-> Append(acc.pages, acc.currentPage),
          currentPage   |-> << i >>,
          currentHeight |-> 0]
    ELSE [pages         |-> acc.pages,
          currentPage   |-> Append(acc.currentPage, i),
          currentHeight |-> acc.currentHeight + h]

\* one iteration of the for loop, for pair index i of measured height h
loopBody(acc, i, h, containerHeight) ==
    IF startNewPage(acc.currentHeight, h, containerHeight, acc.currentPage)
    THEN [pages         |-> Append(acc.pages, acc.currentPage),
          currentPage   |-> << i >>,
          currentHeight |-> h]
    ELSE [pages         |-> acc.pages,
          currentPage   |-> Append(acc.currentPage, i),
          currentHeight |-> acc.currentHeight + h]

\* the for loop from index i to the end of the store
RECURSIVE packLoop(_, _, _, _, _, _)
packLoop(acc, i, pairs, fontSize, containerWidth, containerHeight) ==
    IF i >= Len(pairs) THEN acc
    ELSE packLoop(loopBody(acc, i,
                           pairHeight(pairs[i + 1], fontSize, containerWidth),
                           containerHeight),
                  i + 1, pairs, fontSize, containerWidth, containerHeight)

\* a pass that keeps the pages of the previous pass
resetPages_keeps(oldPages) == oldPages

\* state.pages starts from the empty list on every pass
resetPages(oldPages) == << >>

\* containerHeight of a pass, in fifths of a pixel, and containerWidth
containerHeight(st, vp) == 5 * (vp.clientHeight - st.margin * 2)
containerWidth(st, vp)  == vp.clientWidth - st.margin * 2

\* a pass without the "add last page" step
layoutPages_noLastPage(st, pairs, vp) ==
    packLoop([pages |-> resetPages(st.pages), currentPage |-> << >>,
              currentHeight |-> 0],
             0, pairs, st.fontSize,
             containerWidth(st, vp), containerHeight(st, vp)).pages

\* state.pages after the loop and the "add last page" step
layoutPages(st, pairs, vp) ==
    LET acc == packLoop([pages |-> resetPages(st.pages), currentPage |-> << >>,
                         currentHeight |-> 0],
                        0, pairs, st.fontSize,
                        containerWidth(st, vp), containerHeight(st, vp))
    IN  IF Len(acc.currentPage) > 0 THEN Append(acc.pages, acc.currentPage)
        ELSE acc.pages

\* the page count without the "|| 1"
countPages_noDefault(pages) == Len(pages)

\* state.pages.length || 1
countPages(pages) == IF Len(pages) = 0 THEN 1 ELSE Len(pages)

\* no clamping
clampCurrentPage_none(currentPage, totalPages) == currentPage

\* a clamp that goes back to the first page
clampCurrentPage_first(currentPage, totalPages) ==
    IF currentPage >= totalPages THEN 0 ELSE currentPage

\* "Ensure current page is valid"
clampCurrentPage(currentPage, totalPages) ==
    IF currentPage >= totalPages THEN totalPages - 1 ELSE currentPage

paginateContent(st, pairs, vp) ==
    LET newPages   == layoutPages(st, pairs, vp)
        totalPages == countPages(newPages)
    IN  [st EXCEPT !.pages       = newPages,
                   !.totalPages  = totalPages,
                   !.currentPage = clampCurrentPage(st.currentPage, totalPages)]

\* What renderCurrentPage puts on the page: the indices of the pairs of the
\* current page, or the no-content notice
NoContent == "No content to display"

renderCurrentPage(st) ==
    IF Len(st.pages) = 0 THEN NoContent
    ELSE IF st.currentPage + 1 \in DOMAIN st.pages
         THEN st.pages[st.currentPage + 1]
         ELSE << >>

----------------------------------------------------------------------------
(* Navigation *)

\* A JavaScript number as goToPage receives it: an integer, or the NaN that
\* parseInt yields for a value that is no number
Num(n) == [nan |-> FALSE, val |-> n]
NaN    == [nan |-> TRUE,  val |-> 0]

\* a >= b and a < b of JavaScript, false whenever an operand is NaN
jsGE(a, b) == ~a.nan /\ ~b.nan /\ a.val >= b.val
jsLT(a, b) == ~a.nan /\ ~b.nan /\ a.val < b.val

\* goToPage with <= in place of < in its guard
goToPage_le(st, pageNum) ==
    IF jsGE(pageNum, Num(0)) /\ (jsLT(pageNum, Num(st.totalPages)) \/ pageNum = Num(st.totalPages))
    THEN [st EXCEPT !.currentPage = pageNum.val]
    ELSE st

\* goToPage that also closes the overlay
goToPage_hidesOverlay(st, pageNum) ==
    IF jsGE(pageNum, Num(0)) /\ jsLT(pageNum, Num(st.totalPages))
    THEN [st EXCEPT !.currentPage = pageNum.val, !.overlayVisible = FALSE]
    ELSE st

goToPage(st, pageNum) ==
    IF jsGE(pageNum, Num(0)) /\ jsLT(pageNum, Num(st.totalPages))
    THEN [st EXCEPT !.currentPage = pageNum.val]
    ELSE st

\* nextPage without its guards
nextPage_unguarded(st) == [st EXCEPT !.currentPage = st.currentPage + 1]

nextPage(st) ==
    IF st.currentPage < st.totalPages - 1
    THEN goToPage(st, Num(st.currentPage + 1))
    ELSE st

prevPage(st) ==
    IF st.currentPage > 0
    THEN goToPage(st, Num(st.currentPage - 1))
    ELSE st

\* toggleOverlay that shows the overlay instead of negating the flag
toggleOverlay_shows(st) == [st EXCEPT !.overlayVisible = TRUE]

toggleOverlay(st) == [st EXCEPT !.overlayVisible = ~st.overlayVisible]

\* adjustFontSize without the clamp to [12, 32]
adjustFontSize_unclamped(st, delta, pairs, vp) ==
    paginateContent([st EXCEPT !.fontSize = st.fontSize + delta], pairs, vp)

adjustFontSize(st, delta, pairs, vp) ==
    paginateContent(
        [st EXCEPT !.fontSize = Max(MinFontSize, Min(MaxFontSize, st.fontSize + delta))],
        pairs, vp)

adjustMargin(st, delta, pairs, vp) ==
    paginateContent(
        [st EXCEPT !.margin = Max(MinMargin, Min(MaxMargin, st.margin + delta))],
        pairs, vp)

----------------------------------------------------------------------------
(* The reader as a state machine *)

\* a state object literal that starts on the second page
initialState_page1 ==
    [currentPage    |-> 1,
     totalPages     |-> 1,
     pages          |-> << >>,
     fontSize       |-> initial_font_size,
     margin         |-> initial_margin,
     overlayVisible |-> FALSE]

\* the state object literal of a freshly generated document
initialState ==
    [currentPage    |-> 0,
     totalPages     |-> 1,
     pages          |-> << >>,
     fontSize       |-> initial_font_size,
     margin         |-> initial_margin,
     overlayVisible |-> FALSE]

\* a generated document once its script has run and DOMContentLoaded has
\* called paginateContent
loadedDocument(pairs, vp) == paginateContent(initialState, pairs, vp)

\* the innerHTML renderCurrentPage builds: the no-content notice, or the
\* pairs of the current page
html(st) ==
    IF Len(st.pages) = 0
    THEN [notice |-> NoContent, pairs |-> << >>]
    ELSE [notice |-> "", pairs |-> renderCurrentPage(st)]

\* updateUI whose Next button is disabled one page late
updateUI_nextOffByOne(st) ==
    [pageIndicator |-> <<st.currentPage + 1, st.totalPages>>,
     sliderMax     |-> st.totalPages - 1,
     sliderValue   |-> st.currentPage,
     fontValue     |-> st.fontSize,
     marginValue   |-> st.margin,
     prevDisabled  |-> (st.currentPage = 0),
     nextDisabled  |-> (st.currentPage = st.totalPages)]

\* the outputs updateUI and updateNavButtons write: "Page c of t", the
\* slider's max and value, the font and margin labels, the disabled flags of
\* the Previous and Next buttons
updateUI(st) ==
    [pageIndicator |-> <<st.currentPage + 1, st.totalPages>>,
     sliderMax     |-> st.totalPages - 1,
     sliderValue   |-> st.currentPage,
     fontValue     |-> st.fontSize,
     marginValue   |-> st.margin,
     prevDisabled  |-> (st.currentPage = 0),
     nextDisabled  |-> (st.currentPage = st.totalPages - 1)]

\* goToPage(pageNum, direction) takes effect on st
goToPageGuard(st, pageNum) ==
    jsGE(pageNum, Num(0)) /\ jsLT(pageNum, Num(st.totalPages))

\* The page container as the HTML template has it, with no timer pending.
\* Spec and FeedSpec do not follow the content of the page container and
\* leave it so; DomSpec does.
containerOfTemplate ==
    /\ pageContainer = [notice |-> "Loading...", pairs |-> << >>]
    /\ swapTimers = << >>

\* st.session_state before any document has been opened, as the .get
\* defaults of main and show_reader read it
noSession ==
    [sentence_pairs      |-> << >>,
     total_sentences     |-> 0,
     processed_count     |-> 0,
     processing_complete |-> TRUE,
     reader_mode         |-> FALSE]

\* the host script at rest, with no session
hostAtRest ==
    /\ session_state = noSession
    /\ rerunPending = FALSE
    /\ delivered = FALSE
    /\ faults = 0

Init ==
    /\ sentencePairs \in SeqsUpTo(Texts, MaxPairs)
    /\ viewport \in Viewports
    /\ state = loadedDocument(sentencePairs, viewport)
    /\ resizeTimeout = FALSE
    /\ lastEvent = "load"
    /\ hostAtRest
    /\ containerOfTemplate
    /\ ui = updateUI(state)

NextPage ==
    /\ state' = nextPage(state)
    /\ lastEvent' = "input"
    /\ UNCHANGED <<sentencePairs, viewport, resizeTimeout>>
    /\ UNCHANGED feedVars
    /\ ui' = IF /\ state.currentPage < state.totalPages - 1
                    /\ goToPageGuard(state, Num(state.currentPage + 1))
                 THEN updateUI(state') ELSE ui
    /\ UNCHANGED <<pageContainer, swapTimers>>

PrevPage ==
    /\ state' = prevPage(state)
    /\ lastEvent' = "input"
    /\ UNCHANGED <<sentencePairs, viewport, resizeTimeout>>
    /\ UNCHANGED feedVars
    /\ ui' = IF /\ state.currentPage > 0
                    /\ goToPageGuard(state, Num(state.currentPage - 1))
                 THEN updateUI(state') ELSE ui
    /\ UNCHANGED <<pageContainer, swapTimers>>

\* what parseInt(e.target.value) can hand to goToPage: a page number below,
\* in or above the range of pages, or NaN
SliderInputs == { Num(n) : n \in -1..state.totalPages } \cup { NaN }

\* the progress slider's input listener, for the parsed value pageNum
GoToPageWith(pageNum) ==
    /\ state' = goToPage(state, pageNum)
    /\ lastEvent' = "input"
    /\ UNCHANGED <<sentencePairs, viewport, resizeTimeout>>
    /\ UNCHANGED feedVars
    /\ ui' = IF goToPageGuard(state, pageNum) THEN updateUI(state') ELSE ui
    /\ UNCHANGED <<pageContainer, swapTimers>>

GoToPage == \E pageNum \in SliderInputs : GoToPageWith(pageNum)

ToggleOverlay ==
    /\ state' = toggleOverlay(state)
    /\ lastEvent' = "input"
    /\ UNCHANGED <<sentencePairs, viewport, resizeTimeout>>
    /\ UNCHANGED feedVars
    /\ UNCHANGED ui
    /\ UNCHANGED <<pageContainer, swapTimers>>

\* the keydown listener on Escape: hides the overlay when it is visible
EscapeKey ==
    /\ state' = IF state.overlayVisible THEN toggleOverlay(state) ELSE state
    /\ lastEvent' = "input"
    /\ UNCHANGED <<sentencePairs, viewport, resizeTimeout>>
    /\ UNCHANGED feedVars
    /\ UNCHANGED ui
    /\ UNCHANGED <<pageContainer, swapTimers>>

AdjustFontSize ==
    \E delta \in {-FontStep, FontStep} :
        /\ state' = adjustFontSize(state, delta, sentencePairs, viewport)
        /\ lastEvent' = "input"
        /\ UNCHANGED <<sentencePairs, viewport, resizeTimeout>>
        /\ UNCHANGED feedVars
        /\ ui' = updateUI(state')
        /\ UNCHANGED <<pageContainer, swapTimers>>

AdjustMargin ==
    \E delta \in {-MarginStep, MarginStep} :
        /\ state' = adjustMargin(state, delta, sentencePairs, viewport)
        /\ lastEvent' = "input"
        /\ UNCHANGED <<sentencePairs, viewport, resizeTimeout>>
        /\ UNCHANGED feedVars
        /\ ui' = updateUI(state')
        /\ UNCHANGED <<pageContainer, swapTimers>>

\* a resize listener that paginates at once on every signal
Resize_undebounced ==
    /\ viewport' \in Viewports \ {viewport}
    /\ state' = paginateContent(state, sentencePairs, viewport')
    /\ resizeTimeout' = FALSE
    /\ lastEvent' = "input"
    /\ UNCHANGED sentencePairs
    /\ UNCHANGED feedVars
    /\ ui' = updateUI(state')
    /\ UNCHANGED <<pageContainer, swapTimers>>

\* the window is resized: the listener clears the debounce timer and arms it
\* again
Resize ==
    /\ viewport' \in Viewports \ {viewport}
    /\ resizeTimeout' = TRUE
    /\ lastEvent' = "input"
    /\ UNCHANGED <<sentencePairs, state>>
    /\ UNCHANGED feedVars
    /\ UNCHANGED ui
    /\ UNCHANGED <<pageContainer, swapTimers>>

\* the debounce timer fires
ResizeTimer ==
    /\ resizeTimeout
    /\ state' = paginateContent(state, sentencePairs, viewport)
    /\ resizeTimeout' = FALSE
    /\ lastEvent' = "input"
    /\ UNCHANGED <<sentencePairs, viewport>>
    /\ UNCHANGED feedVars
    /\ ui' = updateUI(state')
    /\ UNCHANGED <<pageContainer, swapTimers>>

\* the store replaced by the batch / the batch put in front
extend_replaces(sentence_pairs, new_pairs) == new_pairs
extend_prepends(sentence_pairs, new_pairs) == new_pairs \o sentence_pairs

\* a store that is a sliding window: the oldest pair leaves as a batch comes in
extend_dropsOldest(sentence_pairs, new_pairs) ==
    IF sentence_pairs = << >> \/ new_pairs = << >>
    THEN sentence_pairs \o new_pairs
    ELSE Tail(sentence_pairs) \o new_pairs

\* st.session_state.sentence_pairs.extend(new_pairs)
extend(sentence_pairs, new_pairs) == sentence_pairs \o new_pairs

\* A rerun of show_reader with a batch of newly translated pairs (the reader
\* is only shown for a non-empty store): the store is extended, and the
\* reader document is generated anew from it by generate_reader_html with the
\* default font size and margin, replaces the old one in the frame, whose
\* timers die with it, and paginates on load.  The batch is any non-empty
\* run of at most MaxBatch pairs.
AppendContent ==
    /\ Len(sentencePairs) > 0
    /\ \E new_pairs \in SeqsUpTo(Texts, MaxBatch) :
          /\ Len(new_pairs) > 0
          /\ Len(sentencePairs) + Len(new_pairs) <= MaxPairs
          /\ sentencePairs' = extend(sentencePairs, new_pairs)
    /\ state' = loadedDocument(sentencePairs', viewport)
    /\ resizeTimeout' = FALSE
    /\ lastEvent' = "append"
    /\ UNCHANGED viewport
    /\ UNCHANGED feedVars
    /\ ui' = updateUI(state')
    /\ UNCHANGED <<pageContainer, swapTimers>>

Next ==
    \/ NextPage
    \/ PrevPage
    \/ GoToPage
    \/ ToggleOverlay
    \/ EscapeKey
    \/ AdjustFontSize
    \/ AdjustMargin
    \/ Resize
    \/ ResizeTimer
    \/ AppendContent

Spec == Init /\ [][Next]_vars

----------------------------------------------------------------------------
(* The progressive feed of the host (src/app.py)                           *)
(*                                                                         *)
(* The sentences of the opened document are numbered 1..total_sentences    *)
(* in document order (all_sentences[i] of the source is sentence i + 1),   *)
(* and the English string the translator gives for sentence s is en(s).    *)
(* A stored pair is <<sentence, string>>.                                  *)

MaxSentences == 70   \* longest document opened
MaxFaults == 1       \* calls of translate_batch that return a wrong number of strings

initial_batch_limit == 50   \* initial_batch_size = min(50, total)
initial_chunk_size == 8     \* batch_size of process_and_open_reader
batch_size == 16            \* batch_size of show_reader

en(s) == [en |-> s]

\* all_sentences[from:to], 0-based and half-open as a Python slice
slice(from, to) == [k \in 1..(to - from) |-> from + k]

\* list(zip(sentences, translations)): as long as the shorter of the two
zip(sentences, translations) ==
    [k \in 1..Min(Len(sentences), Len(translations)) |->
        <<sentences[k], translations[k]>>]

\* Translator.translate_batch as written: one decoded string per text
translate_batch(texts) == [k \in 1..Len(texts) |-> en(texts[k])]

\* What a call of translator.translate_batch(texts) can hand back after f
\* faulty calls: the translations, or, from a translator that breaks its
\* interface, a list that lacks the last string.
translatorReturns(texts, f) ==
    { [strings |-> translate_batch(texts), faults |-> f] } \cup
    IF f < MaxFaults
    THEN { [strings |-> SubSeq(translate_batch(texts), 1, Len(texts) - 1),
            faults  |-> f + 1] }
    ELSE { }

\* The translation loop of process_and_open_reader from offset i on: the
\* lists initial_translations it can end with, each with the count of faulty
\* calls.
RECURSIVE translateInitial(_, _, _, _)
translateInitial(initial_sentences, i, initial_translations, f) ==
    IF i >= Len(initial_sentences)
    THEN { [strings |-> initial_translations, faults |-> f] }
    ELSE LET batch == SubSeq(initial_sentences, i + 1,
                             Min(i + initial_chunk_size, Len(initial_sentences)))
         IN  UNION { translateInitial(initial_sentences, i + initial_chunk_size,
                                      initial_translations \o r.strings, r.faults) :
                     r \in translatorReturns(batch, f) }

\* a session that is opened with processing never marked complete
openedSession_incomplete(total, initial_translations) ==
    LET initial_batch_size == Min(initial_batch_limit, total)
        initial_sentences  == slice(0, initial_batch_size)
    IN  [sentence_pairs      |-> zip(initial_sentences, initial_translations),
         total_sentences     |-> total,
         processed_count     |-> initial_batch_size,
         processing_complete |-> FALSE,
         reader_mode         |-> TRUE]

\* the session process_and_open_reader stores for a document of total
\* sentences whose initial translations are initial_translations
openedSession(total, initial_translations) ==
    LET initial_batch_size == Min(initial_batch_limit, total)
        initial_sentences  == slice(0, initial_batch_size)
    IN  [sentence_pairs      |-> zip(initial_sentences, initial_translations),
         total_sentences     |-> total,
         processed_count     |-> initial_batch_size,
         processing_complete |-> (initial_batch_size >= total),
         reader_mode         |-> TRUE]

\* the batch show_reader translates next
end_idx(ss) == Min(ss.processed_count + batch_size, ss.total_sentences)

\* a batch that starts again at the last sentence of the batch before
batch_to_translate_overlaps(ss) == slice(ss.processed_count - 1, end_idx(ss))

batch_to_translate(ss) == slice(ss.processed_count, end_idx(ss))

\* show_reader has a batch to translate in this run
feedDue(ss) == ~ss.processing_complete /\ ss.processed_count < ss.total_sentences

\* a feed step that counts a whole batch_size even for a shorter last batch
feedStep_overshoots(ss, batch_translations) ==
    [ss EXCEPT
        !.sentence_pairs = extend(@, zip(batch_to_translate(ss), batch_translations)),
        !.processed_count = ss.processed_count + batch_size,
        !.processing_complete = IF end_idx(ss) >= ss.total_sentences THEN TRUE ELSE @]

\* a feed step that never sets processing_complete
feedStep_neverCompletes(ss, batch_translations) ==
    [ss EXCEPT
        !.sentence_pairs = extend(@, zip(batch_to_translate(ss), batch_translations)),
        !.processed_count = end_idx(ss)]

\* the session after the batch came back as batch_translations
feedStep(ss, batch_translations) ==
    [ss EXCEPT
        !.sentence_pairs = extend(@, zip(batch_to_translate(ss), batch_translations)),
        !.processed_count = end_idx(ss),
        !.processing_complete = IF end_idx(ss) >= ss.total_sentences THEN TRUE ELSE @]

\* "Continue background translation" of show_reader: the sessions and fault
\* counts it can leave
continueProcessing(ss, f) ==
    IF feedDue(ss)
    THEN { [session |-> feedStep(ss, r.strings), faults |-> r.faults] :
           r \in translatorReturns(batch_to_translate(ss), f) }
    ELSE { [session |-> ss, faults |-> f] }

\* The upload page's Start Reading button with a document of total
\* sentences.  A document whose extraction yields no text or no sentences
\* (total = 0) shows an error and returns before the session is touched.
\* Otherwise the first sentences are translated in chunks, the session is
\* stored and a rerun is scheduled.
ProcessAndOpenReader ==
    /\ ~session_state.reader_mode
    /\ \E total \in 0..MaxSentences :
          IF total = 0
          THEN UNCHANGED feedVars
          ELSE /\ \E r \in translateInitial(slice(0, Min(initial_batch_limit, total)),
                                            0, << >>, faults) :
                     /\ session_state' = openedSession(total, r.strings)
                     /\ faults' = r.faults
               /\ rerunPending' = TRUE
               /\ delivered' = FALSE
    /\ UNCHANGED readerVars
    /\ UNCHANGED domVars

\* a run in reader mode that does not look at the store before it feeds and
\* renders
ShowReader_rendersEmpty ==
    /\ session_state.reader_mode
    /\ rerunPending
    /\ \E o \in continueProcessing(session_state, faults) :
          /\ session_state' = o.session
          /\ faults' = o.faults
    /\ rerunPending' = ~session_state.processing_complete
    /\ delivered' = TRUE
    /\ UNCHANGED readerVars
    /\ UNCHANGED domVars

\* One scheduled run of the script in reader mode.  With an empty store
\* show_reader leaves reader mode and the rerun shows the upload page.
\* Otherwise it translates the next batch if one is due, generates the reader
\* document from the store, hands it to components.html, and calls st.rerun()
\* when processing was not complete at the start of the run.
ShowReader ==
    /\ session_state.reader_mode
    /\ rerunPending
    /\ IF session_state.sentence_pairs = << >>
       THEN /\ session_state' = [session_state EXCEPT !.reader_mode = FALSE]
            /\ rerunPending' = FALSE
            /\ delivered' = FALSE
            /\ UNCHANGED faults
       ELSE /\ \E o \in continueProcessing(session_state, faults) :
                  /\ session_state' = o.session
                  /\ faults' = o.faults
            /\ rerunPending' = ~session_state.processing_complete
            /\ delivered' = TRUE
    /\ UNCHANGED readerVars
    /\ UNCHANGED domVars

\* A click on the Exit button of a reader on display: the run it triggers
\* goes through the translation step of show_reader first, then st.button
\* returns True, reader mode is left and the rerun shows the upload page.
Exit ==
    /\ session_state.reader_mode
    /\ delivered
    /\ \E o \in continueProcessing(session_state, faults) :
          /\ session_state' = [o.session EXCEPT !.reader_mode = FALSE]
          /\ faults' = o.faults
    /\ rerunPending' = FALSE
    /\ delivered' = FALSE
    /\ UNCHANGED readerVars
    /\ UNCHANGED domVars

FeedInit ==
    /\ sentencePairs = << >>
    /\ viewport \in Viewports
    /\ state = loadedDocument(sentencePairs, viewport)
    /\ resizeTimeout = FALSE
    /\ lastEvent = "load"
    /\ hostAtRest
    /\ containerOfTemplate
    /\ ui = updateUI(state)

FeedNext ==
    \/ ProcessAndOpenReader
    \/ ShowReader
    \/ Exit

FeedSpec == FeedInit /\ [][FeedNext]_vars

\* a scheduled rerun does run: Streamlit starts the script again after
\* st.rerun()
FairFeedSpec == FeedInit /\ [][FeedNext]_vars /\ WF_vars(ShowReader)

----------------------------------------------------------------------------
(* The reader with its DOM: one generated document from its load on, with  *)
(* the page container, the pending content swaps and the progress outputs. *)

MaxSwaps == 1        \* content swaps that can be pending at a time

\* What renderCurrentPage(direction) does to the page container and the
\* timers for the state st it reads: with no page it writes the notice at
\* once; with a direction it starts a 150 ms timer that carries the html
\* built now; without one it writes the html at once.
RenderDom(st, animated) ==
    IF Len(st.pages) = 0 \/ ~animated
    THEN /\ pageContainer' = html(st)
         /\ UNCHANGED swapTimers
    ELSE /\ swapTimers' = Append(swapTimers, html(st))
         /\ UNCHANGED pageContainer

\* the DOM part of goToPage(pageNum, direction): nothing when the guard
\* fails, else updateUI and renderCurrentPage(direction)
GoToPageDomPart(pageNum, animated) ==
    IF goToPageGuard(state, pageNum)
    THEN /\ ui' = updateUI(state')
         /\ RenderDom(state', animated)
    ELSE UNCHANGED domVars

\* the end of paginateContent: updateUI() and renderCurrentPage()
PaginateDomPart ==
    /\ ui' = updateUI(state')
    /\ RenderDom(state', FALSE)

NextPageDom ==
    /\ state.currentPage < state.totalPages - 1 => Len(swapTimers) < MaxSwaps
    /\ state' = nextPage(state)
    /\ IF state.currentPage < state.totalPages - 1
       THEN GoToPageDomPart(Num(state.currentPage + 1), TRUE)
       ELSE UNCHANGED domVars
    /\ lastEvent' = "input"
    /\ UNCHANGED <<sentencePairs, viewport, resizeTimeout>>
    /\ UNCHANGED feedVars

PrevPageDom ==
    /\ state.currentPage > 0 => Len(swapTimers) < MaxSwaps
    /\ state' = prevPage(state)
    /\ IF state.currentPage > 0
       THEN GoToPageDomPart(Num(state.currentPage - 1), TRUE)
       ELSE UNCHANGED domVars
    /\ lastEvent' = "input"
    /\ UNCHANGED <<sentencePairs, viewport, resizeTimeout>>
    /\ UNCHANGED feedVars

\* The slider is moved to a value of its range and the input listener calls
\* goToPage(parseInt(value)).
GoToPageDom ==
    \E value \in 0..ui.sliderMax :
        /\ state' = goToPage(state, Num(value))
        /\ GoToPageDomPart(Num(value), FALSE)
        /\ lastEvent' = "input"
        /\ UNCHANGED <<sentencePairs, viewport, resizeTimeout>>
        /\ UNCHANGED feedVars

AdjustFontSizeDom ==
    \E delta \in {-FontStep, FontStep} :
        /\ state' = adjustFontSize(state, delta, sentencePairs, viewport)
        /\ PaginateDomPart
        /\ lastEvent' = "input"
        /\ UNCHANGED <<sentencePairs, viewport, resizeTimeout>>
        /\ UNCHANGED feedVars

AdjustMarginDom ==
    \E delta \in {-MarginStep, MarginStep} :
        /\ state' = adjustMargin(state, delta, sentencePairs, viewport)
        /\ PaginateDomPart
        /\ lastEvent' = "input"
        /\ UNCHANGED <<sentencePairs, viewport, resizeTimeout>>
        /\ UNCHANGED feedVars

ResizeTimerDom ==
    /\ resizeTimeout
    /\ state' = paginateContent(state, sentencePairs, viewport)
    /\ PaginateDomPart
    /\ resizeTimeout' = FALSE
    /\ lastEvent' = "input"
    /\ UNCHANGED <<sentencePairs, viewport>>
    /\ UNCHANGED feedVars

\* the oldest pending 150 ms timer fires: the html it carries goes into the
\* page container
SwapTimer ==
    /\ swapTimers # << >>
    /\ pageContainer' = Head(swapTimers)
    /\ swapTimers' = Tail(swapTimers)
    /\ UNCHANGED <<ui, readerVars, feedVars>>

\* the document once DOMContentLoaded has paginated, updated the outputs and
\* rendered the first page
DomInit ==
    /\ sentencePairs \in SeqsUpTo(Texts, MaxPairs)
    /\ viewport \in Viewports
    /\ state = loadedDocument(sentencePairs, viewport)
    /\ resizeTimeout = FALSE
    /\ lastEvent = "load"
    /\ hostAtRest
    /\ pageContainer = html(state)
    /\ swapTimers = << >>
    /\ ui = updateUI(state)

\* toggleOverlay, the Escape key and the resize listener write neither the
\* page container nor the progress outputs
DomNext ==
    \/ NextPageDom
    \/ PrevPageDom
    \/ GoToPageDom
    \/ ToggleOverlay
    \/ EscapeKey
    \/ AdjustFontSizeDom
    \/ AdjustMarginDom
    \/ Resize
    \/ ResizeTimerDom
    \/ SwapTimer

DomSpec == DomInit /\ [][DomNext]_vars

----------------------------------------------------------------------------
(* Vocabulary of the properties *)

RECURSIVE Flatten(_)
Flatten(ps) == IF ps = << >> THEN << >> ELSE Head(ps) \o Flatten(Tail(ps))

\* 0, 1, ..., n-1
Indices(n) == [k \in 1..n |-> k - 1]

StoreIndices == 0..(Len(sentencePairs) - 1)

\* the layout in state.pages was computed for the current viewport
LayoutFresh == ~resizeTimeout

\* measured height of pair i under the current parameters and viewport
h(i) == pairHeight(sentencePairs[i + 1], state.fontSize, containerWidth(state, viewport))

RECURSIVE SumHeights(_)
SumHeights(idx) == IF idx = << >> THEN 0 ELSE h(Head(idx)) + SumHeights(Tail(idx))

\* the page of state.pages that holds pair i
PageWith(i) ==
    CHOOSE p \in DOMAIN state.pages : \E k \in DOMAIN state.pages[p] : state.pages[p][k] = i

\* height accumulated on the page of pair i-1 when pair i is considered
accumulatedHeight(i) ==
    SumHeights(SelectSeq(state.pages[PageWith(i - 1)], LAMBDA j : j < i))

\* pair i is the first pair of a page other than the first
BreakBefore(i) ==
    \E p \in DOMAIN state.pages : p > 1 /\ state.pages[p] # << >> /\ state.pages[p][1] = i

\* the step is a host rerun that appended pairs while font size, margin and
\* viewport are the ones the old layout was computed for
AppendSameParams ==
    /\ lastEvent' = "append"
    /\ LayoutFresh
    /\ state'.fontSize = state.fontSize
    /\ state'.margin = state.margin
    /\ viewport' = viewport

\* the layout, under the current parameters and viewport, of the first k
\* pairs of the store
LayoutBefore(k) == layoutPages(state, SubSeq(sentencePairs, 1, k), viewport)

\* every page of old but its last is a page of new at the same place, and
\* the last page of old is the start of the page of new at its place
KeepsClosedPages(old, new) ==
    /\ Len(new) >= Len(old)
    /\ \A p \in DOMAIN old :
          IF p < Len(old)
          THEN new[p] = old[p]
          ELSE /\ Len(new[p]) >= Len(old[p])
               /\ SubSeq(new[p], 1, Len(old[p])) = old[p]

----------------------------------------------------------------------------
(* Properties *)

\* C1: for a non-empty store the pages of state.pages, concatenated in order,
\* are exactly 0, 1, ..., sentencePairs.length-1: every index once, ascending.
C1_Coverage ==
    Len(sentencePairs) > 0 => Flatten(state.pages) = Indices(Len(sentencePairs))

C1_Witness ==
    /\ Len(sentencePairs) = 3
    /\ Len(state.pages) = 2
    /\ state.fontSize # initial_font_size
    /\ state.margin # initial_margin
    /\ lastEvent = "input"

\* C2: 0 <= currentPage < totalPages in the initial state and after every event.
C2_ClampInvariant ==
    /\ state.currentPage \in Int
    /\ state.totalPages \in Int
    /\ 0 <= state.currentPage
    /\ state.currentPage < state.totalPages

\* on the last of several pages after the parameters were changed
C2_Witness ==
    /\ lastEvent = "input"
    /\ state.totalPages = 2
    /\ state.currentPage = 1
    /\ Len(sentencePairs) = 3
    /\ state.fontSize < initial_font_size

\* C3: in a layout computed for the current viewport, pair i starts a new page
\* exactly when the page before it is non-empty and the height accumulated on
\* it plus h(i) is strictly greater than containerHeight; no page is empty, so
\* no break precedes pair 0.
C3_BreakRule ==
    LayoutFresh =>
        /\ \A p \in DOMAIN state.pages : state.pages[p] # << >>
        /\ \A i \in StoreIndices \ {0} :
              BreakBefore(i) <=>
                  accumulatedHeight(i) + h(i) > containerHeight(state, viewport)

\* a pair that fills its page exactly and is kept on it
C3_Witness ==
    /\ LayoutFresh
    /\ \E i \in StoreIndices \ {0} :
          /\ accumulatedHeight(i) + h(i) = containerHeight(state, viewport)
          /\ ~BreakBefore(i)

\* C4: in a layout computed for the current viewport, every pair higher than
\* containerHeight is the only member of some page.
C4_OversizedAlone ==
    LayoutFresh =>
        \A i \in StoreIndices :
            h(i) > containerHeight(state, viewport) =>
                \E p \in DOMAIN state.pages : state.pages[p] = << i >>

\* an oversized pair between two pairs that are not oversized
C4_Witness ==
    /\ LayoutFresh
    /\ Len(sentencePairs) = 3
    /\ h(1) > containerHeight(state, viewport)
    /\ h(0) <= containerHeight(state, viewport)
    /\ h(2) <= containerHeight(state, viewport)
    /\ state.margin # initial_margin
    /\ state.pages = << << 0 >>, << 1 >>, << 2 >> >>

\* C5 as stated: for an empty store the layout is exactly one empty page and
\* the number of pages in the layout equals totalPages.
C5_SingleEmptyPage ==
    Len(sentencePairs) = 0 =>
        /\ state.pages = << << >> >>
        /\ state.totalPages = 1
        /\ Len(state.pages) = state.totalPages

\* C5 amended: for an empty store state.pages is the empty list while
\* totalPages is 1, currentPage is 0 and the no-content notice is rendered.
C5_EmptyStore ==
    Len(sentencePairs) = 0 =>
        /\ state.pages = << >>
        /\ state.totalPages = 1
        /\ state.currentPage = 0
        /\ renderCurrentPage(state) = NoContent

C5_Witness ==
    /\ Len(sentencePairs) = 0
    /\ lastEvent = "input"
    /\ state.fontSize # initial_font_size
    /\ state.pages = << >>

\* C6: a pagination pass run again on its own result changes nothing, and a
\* pass run on a layout that is already the one of the current store,
\* parameters and viewport leaves pages, totalPages and currentPage as they are.
C6_Idempotent ==
    LET once == paginateContent(state, sentencePairs, viewport)
    IN  /\ paginateContent(once, sentencePairs, viewport) = once
        /\ LayoutFresh => once = state

\* a pending pass that will change a layout of several pages
C6_Witness ==
    /\ resizeTimeout
    /\ Len(state.pages) >= 2
    /\ paginateContent(state, sentencePairs, viewport).pages # state.pages

\* C7: an append under unchanged font size, margin and viewport never
\* decreases totalPages; and under every font size, margin and viewport the
\* layout of the store has at least as many pages as the layout of each of
\* its non-empty proper prefixes, the stores it can have been appended to.
C7_AppendMonotonic ==
    /\ [][AppendSameParams => state'.totalPages >= state.totalPages]_vars
    /\ [](LayoutFresh =>
            \A k \in 1..(Len(sentencePairs) - 1) :
                countPages(LayoutBefore(k)) <= state.totalPages)

\* pairs were appended and the layout has more pages than a single one
C7_Witness ==
    /\ lastEvent = "append"
    /\ Len(sentencePairs) = 3
    /\ state.totalPages = 2

\* C8 as stated: an append under unchanged parameters leaves every page of the
\* old layout as it was, the last one included.
C8_AllPagesKept ==
    [][AppendSameParams =>
          /\ Len(state'.pages) >= Len(state.pages)
          /\ \A p \in DOMAIN state.pages : state'.pages[p] = state.pages[p]]_vars

\* C8 amended: an append under unchanged parameters leaves every page but
\* the last of the old layout as it was; the page that was last keeps its
\* pairs at its start and may gain appended ones.
C8_ClosedPagesKept ==
    /\ [][AppendSameParams => KeepsClosedPages(state.pages, state'.pages)]_vars
    /\ [](LayoutFresh =>
            \A k \in 1..(Len(sentencePairs) - 1) :
                KeepsClosedPages(LayoutBefore(k), state.pages))

\* the page that was last has gained an appended pair, after a closed page
C8_Witness ==
    /\ lastEvent = "append"
    /\ Len(state.pages) = 2
    /\ state.pages[2] = << 1, 2 >>

\* C9: the current page index is the same after an append as before it.
C9_PagePreserved ==
    [][lastEvent' = "append" => state'.currentPage = state.currentPage]_vars

\* C10: nextPage adds exactly 1 to currentPage below the last page and
\* changes nothing on it; prevPage subtracts exactly 1 above page 0 and
\* changes nothing on it.
C10_NextPrev ==
    [][/\ NextPage =>
            IF state.currentPage < state.totalPages - 1
            THEN state' = [state EXCEPT !.currentPage = state.currentPage + 1]
            ELSE state' = state
       /\ PrevPage =>
            IF state.currentPage > 0
            THEN state' = [state EXCEPT !.currentPage = state.currentPage - 1]
            ELSE state' = state]_vars

\* on page 1 of a two-page layout under the initial parameters
C10_Witness ==
    /\ lastEvent = "input"
    /\ state.totalPages = 2
    /\ state.currentPage = 1
    /\ state.fontSize = initial_font_size
    /\ state.margin = initial_margin
    /\ ~state.overlayVisible
\* C11: goToPage(n) sets currentPage to n, and nothing else, when
\* 0 <= n < totalPages; for every other n, NaN included, the reader is left
\* exactly as it was.
C11_GoToPage ==
    [][\A pageNum \in SliderInputs :
          GoToPageWith(pageNum) =>
              IF ~pageNum.nan /\ 0 <= pageNum.val /\ pageNum.val < state.totalPages
              THEN state' = [state EXCEPT !.currentPage = pageNum.val]
              ELSE /\ state' = state
                   /\ UNCHANGED <<sentencePairs, viewport, resizeTimeout>>]_vars

\* on the last of three pages: goToPage(totalPages) and goToPage(NaN) are
\* the inputs that must leave it there
C11_Witness ==
    /\ lastEvent = "input"
    /\ state.totalPages = 3
    /\ state.currentPage = 2
    /\ Num(state.totalPages) \in SliderInputs
    /\ NaN \in SliderInputs
    /\ goToPage(state, NaN) = state

\* C12: toggleOverlay negates overlayVisible and changes nothing else, two
\* toggles in a row restore the state, a pagination pass keeps the flag, and
\* the only steps of a document that change the flag are toggles (a click on
\* the centre zone, or Escape while the overlay is visible); the flag
\* otherwise changes only when an append replaces the document.
C12_ToggleOverlay ==
    /\ [][ToggleOverlay =>
              /\ state' = [state EXCEPT !.overlayVisible = ~state.overlayVisible]
              /\ UNCHANGED <<sentencePairs, viewport, resizeTimeout>>]_vars
    /\ [][state'.overlayVisible # state.overlayVisible =>
              \/ state' = [state EXCEPT !.overlayVisible = ~state.overlayVisible]
              \/ lastEvent' = "append"]_vars
    /\ [](/\ toggleOverlay(toggleOverlay(state)) = state
          /\ paginateContent(state, sentencePairs, viewport).overlayVisible
                = state.overlayVisible)

\* the overlay is visible on a later page under changed parameters
C12_Witness ==
    /\ state.overlayVisible
    /\ state.currentPage > 0
    /\ state.fontSize # initial_font_size
    /\ state.margin # initial_margin
    /\ LayoutFresh

\* C13: fontSize is always an even value in [12, 32] and margin a multiple
\* of 8 in [8, 64]; an adjustment at a bound leaves the parameter at the bound.
C13_ParameterRange ==
    /\ state.fontSize \in MinFontSize..MaxFontSize
    /\ state.fontSize % FontStep = 0
    /\ state.margin \in MinMargin..MaxMargin
    /\ state.margin % MarginStep = 0
    /\ state.fontSize = MaxFontSize =>
          adjustFontSize(state, FontStep, sentencePairs, viewport).fontSize = MaxFontSize
    /\ state.fontSize = MinFontSize =>
          adjustFontSize(state, -FontStep, sentencePairs, viewport).fontSize = MinFontSize
    /\ state.margin = MaxMargin =>
          adjustMargin(state, MarginStep, sentencePairs, viewport).margin = MaxMargin
    /\ state.margin = MinMargin =>
          adjustMargin(state, -MarginStep, sentencePairs, viewport).margin = MinMargin

\* the largest font with the smallest margin
C13_Witness ==
    /\ lastEvent = "input"
    /\ state.fontSize = MaxFontSize
    /\ state.margin = MinMargin

\* C14: after every font-size change, margin change and firing of the resize
\* timer, state.pages is the layout of the store for the new parameters and
\* the current viewport, totalPages is its page count and currentPage is
\* min(previous currentPage, new totalPages - 1); outside the debounce window
\* of a resize the layout is always the one of the current parameters.
C14_Repagination ==
    /\ [][(/\ lastEvent' = "input"
            /\ \/ state'.fontSize # state.fontSize
               \/ state'.margin # state.margin
               \/ resizeTimeout /\ ~resizeTimeout') =>
              /\ state'.pages = layoutPages(state', sentencePairs', viewport')
              /\ state'.totalPages = countPages(state'.pages)
              /\ state'.currentPage = Min(state.currentPage, state'.totalPages - 1)]_vars
    /\ [](LayoutFresh => state.pages = layoutPages(state, sentencePairs, viewport))

\* a reader on a page that a larger or smaller font removes: the adjustment
\* puts it on the new last page
C14_Witness ==
    /\ lastEvent = "input"
    /\ state.currentPage > 0
    /\ \E delta \in {-FontStep, FontStep} :
          LET after == adjustFontSize(state, delta, sentencePairs, viewport)
          IN  /\ after.totalPages <= state.currentPage
              /\ after.currentPage = after.totalPages - 1
              /\ after.totalPages >= 2

\* C15: a resize signal changes nothing in the reader state and leaves the
\* debounce timer armed; the timer, when it fires, runs one pagination pass
\* for the viewport of that moment and is then no longer armed.  So a run of
\* signals with no firing in between causes exactly one pass, after the last
\* signal, and none for the intermediate sizes.
C15_Debounce ==
    /\ [][viewport' # viewport => state' = state /\ resizeTimeout']_vars
    /\ [][(resizeTimeout /\ ~resizeTimeout' /\ lastEvent' = "input") =>
              /\ state' = paginateContent(state, sentencePairs, viewport)
              /\ viewport' = viewport]_vars

\* the timer is armed and the layout is still the one of the other size
C15_Witness ==
    /\ resizeTimeout
    /\ state.pages # layoutPages(state, sentencePairs, viewport)
    /\ \E vp \in Viewports \ {viewport} :
          state.pages = layoutPages(state, sentencePairs, vp)

\* C18: fontSize changes only in an adjustFontSize step and margin only in
\* an adjustMargin step; in particular an append leaves both as they were.
C18_ParamsOnlyAdjusted ==
    [][/\ state'.fontSize # state.fontSize => AdjustFontSize
       /\ state'.margin # state.margin => AdjustMargin]_vars

\* C20: in every state in which a handler can render, state.pages is a
\* complete layout of the whole store (every index once, in order, no empty
\* page), totalPages is the page count of that layout, and for a non-empty
\* store the page renderCurrentPage reads exists and is not empty; this holds
\* too while a pagination pass is pending on the resize timer, when the
\* layout is the previous complete one.
C20_CompleteLayout ==
    /\ Flatten(state.pages) = Indices(Len(sentencePairs))
    /\ \A p \in DOMAIN state.pages : state.pages[p] # << >>
    /\ state.totalPages = countPages(state.pages)
    /\ Len(sentencePairs) > 0 =>
          /\ state.currentPage + 1 \in DOMAIN state.pages
          /\ renderCurrentPage(state) = state.pages[state.currentPage + 1]
          /\ Len(renderCurrentPage(state)) > 0

\* a later page is shown from the previous layout while the pass for the
\* new viewport is pending
C20_Witness ==
    /\ resizeTimeout
    /\ lastEvent = "input"
    /\ state.currentPage > 0
    /\ state.totalPages # countPages(layoutPages(state, sentencePairs, viewport))

----------------------------------------------------------------------------
(* The store of a reader session *)

store == session_state.sentence_pairs

IsPrefix(old, new) ==
    /\ Len(old) <= Len(new)
    /\ SubSeq(new, 1, Len(old)) = old

\* C19: within one reader session the store is append-only: over every step
\* taken in reader mode (a run of show_reader, with or without a batch, also
\* the run of an Exit click) the store before the step is a prefix of the
\* store after it, so no pair changes, leaves or moves and the length never
\* decreases.  Only the opening of a document, which starts a session,
\* replaces the store.
C19_AppendOnly ==
    [][session_state.reader_mode => IsPrefix(store, store')]_vars

\* a session whose store has grown by a full batch and then by a partial one
C19_Witness ==
    /\ session_state.reader_mode
    /\ session_state.total_sentences > initial_batch_limit + batch_size
    /\ session_state.processing_complete
    /\ Len(store) = session_state.total_sentences

\* C17: a batch for which the translator returns a number of strings other
\* than the number of sentences is rejected.  In a run of show_reader the
\* store and processed_count stay as they were; on opening a document no
\* pair of sentence s with a string other than en(s) is stored and
\* processed_count does not exceed the number of stored pairs.
C17_LengthMismatchRejected ==
    [][faults' # faults =>
          IF session_state.reader_mode
          THEN /\ store' = store
               /\ session_state'.processed_count = session_state.processed_count
          ELSE /\ \A k \in DOMAIN store' : store'[k] = <<k, en(k)>>
               /\ session_state'.processed_count <= Len(store')]_vars

\* C16: a reader on display is handed a newly generated document, which
\* paginates on load from page 0, only by a run that has appended at least
\* one pair to the store; a run that appends nothing leaves the reader alone.
C16_RepaginatedOnlyOnAppend ==
    [][(delivered /\ delivered') => Len(store') > Len(store)]_vars

\* C21: a freshly generated document starts from currentPage 0, the overlay
\* hidden, font size and margin at the defaults of generate_reader_html (18
\* and 24), and its first pagination pass, on load, leaves currentPage at 0.
C21_InitialState ==
    /\ initialState.currentPage = 0
    /\ ~initialState.overlayVisible
    /\ initialState.fontSize = 18
    /\ initialState.margin = 24
    /\ lastEvent \in {"load", "append"} =>
          /\ state = paginateContent(initialState, sentencePairs, viewport)
          /\ state.currentPage = 0
          /\ ~state.overlayVisible
          /\ state.fontSize = initial_font_size
          /\ state.margin = initial_margin

\* a document just loaded whose store fills three pages
C21_Witness ==
    /\ lastEvent = "load"
    /\ Len(state.pages) = 3
    /\ state.currentPage = 0

\* C22: in a layout computed for the current viewport every page but the last
\* is maximal: the heights of its pairs plus the height of the first pair of
\* the next page exceed containerHeight.
C22_MaximalPages ==
    LayoutFresh =>
        \A p \in DOMAIN state.pages :
            p < Len(state.pages) =>
                SumHeights(state.pages[p]) + h(state.pages[p + 1][1])
                    > containerHeight(state, viewport)

\* a page of two pairs closed because the third did not fit
C22_Witness ==
    /\ LayoutFresh
    /\ Len(state.pages) = 2
    /\ Len(state.pages[1]) = 2
    /\ lastEvent = "input"

\* C23: in a layout computed for the current viewport every page of two or
\* more pairs is at most containerHeight high, so only a page of one pair can
\* overflow; with containerHeight zero or negative every page has one pair.
C23_OverflowConfined ==
    LayoutFresh =>
        /\ \A p \in DOMAIN state.pages :
              Len(state.pages[p]) >= 2 =>
                  SumHeights(state.pages[p]) <= containerHeight(state, viewport)
        /\ containerHeight(state, viewport) <= 0 =>
              \A p \in DOMAIN state.pages : Len(state.pages[p]) = 1

\* a page that holds three pairs after the margin was changed
C23_Witness ==
    /\ LayoutFresh
    /\ lastEvent = "input"
    /\ state.margin # initial_margin
    /\ \E p \in DOMAIN state.pages : Len(state.pages[p]) >= 3

\* C24: for a non-empty store no page of state.pages is empty, so
\* 1 <= totalPages <= sentencePairs.length and totalPages = state.pages.length.
C24_NoEmptyPage ==
    Len(sentencePairs) > 0 =>
        /\ \A p \in DOMAIN state.pages : Len(state.pages[p]) >= 1
        /\ 1 <= state.totalPages
        /\ state.totalPages <= Len(sentencePairs)
        /\ state.totalPages = Len(state.pages)

\* a store whose first pair alone is higher than the container
C24_Witness ==
    /\ LayoutFresh
    /\ Len(sentencePairs) = 3
    /\ h(0) > containerHeight(state, viewport)
    /\ state.totalPages = 3

\* C25: nextPage, prevPage and goToPage change nothing of the state but
\* currentPage, whatever page number goToPage is given; and whenever
\* state.pages changes, the new value is the layout a pagination pass computes
\* from the parameters, store and viewport of that moment.
C25_NavigationFrame ==
    /\ [](/\ [nextPage(state) EXCEPT !.currentPage = state.currentPage] = state
          /\ [prevPage(state) EXCEPT !.currentPage = state.currentPage] = state
          /\ \A pageNum \in SliderInputs :
                [goToPage(state, pageNum) EXCEPT !.currentPage = state.currentPage]
                    = state)
    /\ [][state'.pages # state.pages =>
             state'.pages = layoutPages(state', sentencePairs', viewport')]_vars

\* a reader that has moved off the first page with the overlay open and
\* changed parameters
C25_Witness ==
    /\ lastEvent = "input"
    /\ state.overlayVisible
    /\ state.currentPage = 1
    /\ state.totalPages = 3
    /\ state.fontSize # initial_font_size

\* C27: in the loaded document and after every event the progress outputs
\* agree with the state: the indicator reads "Page currentPage+1 of
\* totalPages", the slider has max totalPages-1 and value currentPage,
\* Previous is disabled exactly on page 0 and Next exactly on the last page.
C27_ProgressOutputs ==
    /\ ui.pageIndicator = <<state.currentPage + 1, state.totalPages>>
    /\ ui.sliderMax = state.totalPages - 1
    /\ ui.sliderValue = state.currentPage
    /\ ui.prevDisabled <=> state.currentPage = 0
    /\ ui.nextDisabled <=> state.currentPage = state.totalPages - 1

\* on the last of three pages after navigation, Next disabled
C27_Witness ==
    /\ lastEvent = "input"
    /\ state.totalPages = 3
    /\ state.currentPage = 2
    /\ ui.nextDisabled
    /\ ~ui.prevDisabled

\* C26: once no content swap is pending, the page container shows exactly
\* what renderCurrentPage builds from the state: the pairs of
\* state.pages[state.currentPage].
C26_DisplayConverges ==
    swapTimers = << >> => pageContainer = html(state)

\* the translator has returned one string per sentence in every call so far
SoundTranslator == faults = 0

\* the feed of the session is over
FeedDone ==
    /\ session_state.reader_mode
    /\ session_state.processing_complete
    /\ session_state.processed_count = session_state.total_sentences
    /\ Len(store) = session_state.total_sentences
    /\ ~rerunPending

\* C28: the feed terminates.  From every state of an open session, unless the
\* translator returns a wrong number of strings or the user leaves the
\* reader, the reruns reach processing_complete with processed_count =
\* total_sentences and all pairs stored and no rerun scheduled; from then on
\* the store does not change and no rerun is scheduled.
C28_FeedTerminates ==
    /\ session_state.reader_mode ~>
          (FeedDone \/ ~SoundTranslator \/ ~session_state.reader_mode)
    /\ [][FeedDone => store' = store /\ ~rerunPending']_vars

\* the end of the feed of a document that took two background batches
C28_Witness ==
    /\ FeedDone
    /\ SoundTranslator
    /\ delivered
    /\ session_state.total_sentences > initial_batch_limit + batch_size

\* C29: with a sound translator, in every state of a reader session
\* processed_count = len(sentence_pairs) <= total_sentences and
\* processing_complete holds exactly when processed_count >= total_sentences;
\* over every step of the session processed_count does not decrease.
C29_Bookkeeping ==
    /\ [](SoundTranslator /\ session_state.reader_mode =>
             /\ session_state.processed_count = Len(store)
             /\ session_state.processed_count <= session_state.total_sentences
             /\ session_state.processing_complete <=>
                   session_state.processed_count >= session_state.total_sentences)
    /\ [][session_state.reader_mode =>
             session_state'.processed_count >= session_state.processed_count]_vars

\* a session between its first and its second background batch
C29_Witness ==
    /\ SoundTranslator
    /\ session_state.reader_mode
    /\ session_state.processed_count = initial_batch_limit + batch_size
    /\ ~session_state.processing_complete

\* C30: with a sound translator the pair at store index i (position i + 1
\* here) is sentence i of the document with its own translation, for every
\* i < processed_count, and the store has exactly processed_count pairs: no
\* sentence is skipped or paired twice at a batch boundary.
C30_Alignment ==
    SoundTranslator /\ session_state.reader_mode =>
        /\ Len(store) = session_state.processed_count
        /\ \A k \in DOMAIN store : store[k] = <<k, en(k)>>

\* a store built from seven initial chunks, a full background batch and a
\* shorter last one
C30_Witness ==
    /\ SoundTranslator
    /\ session_state.reader_mode
    /\ Len(store) > initial_batch_limit + batch_size
    /\ Len(store) < initial_batch_limit + 2 * batch_size
    /\ Len(store) = session_state.total_sentences

\* the sentences of the document from index from up to index to - 1, written
\* out by their numbers
sentencesFrom(from, to) == [k \in 1..(to - from) |-> from + k]

\* C31: the feed never hands over an empty batch.  In every session in reader
\* mode whose processing_complete is False, the batch show_reader translates
\* next is all_sentences[processed_count : min(processed_count + 16,
\* total_sentences)] and holds between 1 and 16 sentences; and a run that
\* performs the feed step with a translator call that returns one string per
\* sentence appends exactly the pairs of that batch, between 1 and 16 of them.
C31_NonEmptyBatch ==
    /\ [](session_state.reader_mode /\ ~session_state.processing_complete =>
             LET pc == session_state.processed_count
                 to == Min(pc + 16, session_state.total_sentences)
             IN  /\ feedDue(session_state)
                 /\ batch_to_translate(session_state) = sentencesFrom(pc, to)
                 /\ Len(batch_to_translate(session_state)) \in 1..16)
    /\ [][/\ session_state.reader_mode
          /\ ~session_state.processing_complete
          /\ store # << >>
          /\ faults' = faults
          => LET batch == batch_to_translate(session_state)
             IN  /\ session_state'.sentence_pairs =
                       store \o [k \in DOMAIN batch |-> <<batch[k], en(batch[k])>>]
                 /\ Len(session_state'.sentence_pairs) - Len(store) \in 1..16]_vars

\* a session after its first background batch whose last batch, of a single
\* sentence, is still due
C31_Witness ==
    /\ SoundTranslator
    /\ session_state.reader_mode
    /\ ~session_state.processing_complete
    /\ session_state.processed_count = initial_batch_limit + batch_size
    /\ session_state.total_sentences = session_state.processed_count + 1

\* C32: the reader is never shown for an empty store.  A reader document is
\* on display only for a non-empty store; process_and_open_reader sets
\* reader_mode only for a document of at least one sentence (without text or
\* sentences it returns and the session stays as it was) and, when its
\* translator calls return one string per sentence, only with at least one
\* pair stored; and a run of show_reader that finds sentence_pairs empty sets
\* reader_mode to False, schedules no further reader run, renders nothing and
\* leaves the rest of the session, processed_count included, as it was.
C32_NoEmptyReader ==
    /\ [](delivered => store # << >>)
    /\ [][~session_state.reader_mode /\ session_state'.reader_mode =>
             /\ session_state'.total_sentences >= 1
             /\ faults' = faults => Len(session_state'.sentence_pairs) >= 1]_vars
    /\ [][session_state.reader_mode /\ store = << >> =>
             /\ session_state' = [session_state EXCEPT !.reader_mode = FALSE]
             /\ ~delivered'
             /\ ~rerunPending'
             /\ faults' = faults]_vars

\* the upload page shown again after show_reader found the store of an opened
\* one-sentence document empty
C32_Witness ==
    /\ ~session_state.reader_mode
    /\ session_state.total_sentences = 1
    /\ store = << >>
    /\ ~delivered
    /\ ~rerunPending
====
